---- MODULE Spec2Model ----
(***************************************************************************)
(* PhotoApp (src/main.py): a command loop over an S3 bucket and a MySQL    *)
(* database with the tables users(userid, email, lastname, firstname,      *)
(* bucketfolder) and assets(assetid, userid, assetname, bucketkey).        *)
(*                                                                         *)
(* One action per command of the loop; an action is the whole handler,     *)
(* from the read of the command number to the return to the prompt (or to  *)
(* the end of the process).  Every call to the database or to the bucket   *)
(* may fail; the way it fails is an input of the action.                   *)
(*                                                                         *)
(* Rows are tuples in column order, so that the code's row[i] is the       *)
(* model's row[i+1].  uuid.uuid4() is modelled as a fresh token: the k-th  *)
(* token drawn is the number k (tokens are only ever compared).            *)
(***************************************************************************)
EXTENDS Integers, Sequences, FiniteSets, TLC

\* Number of uuid4 tokens the process may draw: every insert and every
\* stored object draws one, so this bounds the tables and the bucket.
MaxTokens == 3

\* The highest command number of the menu.
LastCommand == 7

VARIABLES
  pc,            \* "awaiting" | "terminated" | "aborted" | "crashed"
  cmd,           \* the loop's cmd variable: the last command number read
  users,         \* table users: set of <<userid, email, lastname, firstname, bucketfolder>>
  assets,        \* table assets: set of <<assetid, userid, assetname, bucketkey>>
  nextUserId,    \* AUTO_INCREMENT counter of users
  nextAssetId,   \* AUTO_INCREMENT counter of assets
  lastInsertId,  \* the connection's LAST_INSERT_ID()
  nextToken,     \* the next fresh uuid4 token
  bucket,        \* the S3 bucket: function from keys to contents
  localFiles,    \* the working directory: function from paths to contents or NoFile
  run,           \* what the handler that produced this state read, called and printed
  uploaded,      \* history: <<asset id, content>> of every upload that stored, inserted and reported
  lastUser       \* history: the id of the row the last successful add-user inserted (0: none)

vars == <<pc, cmd, users, assets, nextUserId, nextAssetId, lastInsertId,
          nextToken, bucket, localFiles, run, uploaded, lastUser>>

----------------------------------------------------------------------------
\* Inputs

\* Paths typed at "Enter local file name>": two files of the working
\* directory and a path that names no file.
Paths == {"a.jpg", "b.jpg", "nope.jpg"}
\* File contents are opaque values; NoFile stands for a path that names no file.
NoFile == "(no such file)"
Contents == {"jpeg-1", "jpeg-2"}
Emails == {"a@b.com"}
LastNames == {"Doe"}
FirstNames == {"Jane"}

\* Command numbers typed at the prompt: the menu's, and one outside it.
Commands == 0 .. (LastCommand + 1)

\* Absent values.
NoKey == <<>>
NoInput == -1

\* Messages.
MsgDbFailed == "Database operation failed..."
MsgUnexpected == "Unexpected query failure..."
MsgNoSuchAsset == "No such asset..."
MsgNoSuchUser == "No such user..."
MsgNoLocalFile == "Local file does not exist..."
MsgDownloaded == "Downloaded from S3 and saved as"
MsgUploaded == "Uploaded and stored in S3 as"
MsgRecorded == "Recorded in RDS under asset id"
MsgUnknown == "** Unknown command, try again..."
MsgStats == "stats"
MsgUser == "User id:"
MsgAsset == "Asset id:"

\* The record of a handler's run.
Idle ==
  [handler |-> "idle", path |-> "", id |-> NoInput, out |-> <<>>, rid |-> NoInput,
   rows |-> <<>>, db |-> 0, s3 |-> 0, dbFailed |-> FALSE, action |-> "notrun"]

----------------------------------------------------------------------------
\* The menu (prompt) and the dispatch of the main loop

HandlerOfElseAddUser(c) ==
  CASE c = 0 -> "end"
    [] c = 1 -> "stats"
    [] c = 2 -> "users"
    [] c = 3 -> "assets"
    [] c = 4 -> "download"
    [] c = 5 -> "download"
    [] c = 6 -> "upload"
    [] OTHER -> "adduser"

\* while cmd != 0: if cmd == 1 ... elif cmd == 7 ... else "Unknown command"
HandlerOf(c) ==
  CASE c = 0 -> "end"
    [] c = 1 -> "stats"
    [] c = 2 -> "users"
    [] c = 3 -> "assets"
    [] c = 4 -> "download"
    [] c = 5 -> "download"
    [] c = 6 -> "upload"
    [] c = 7 -> "adduser"
    [] OTHER -> "unknown"

\* download(dbConn, bucket, False) for 4, download(dbConn, bucket, True) for 5
DisplayOf(c) == c = 5

----------------------------------------------------------------------------
\* The data-access wrapper (datatier) and the storage wrapper (awsutil)

\* A query's result: fail is the absent value (None), rows = <<>> the empty
\* marker (), and otherwise rows holds what was fetched.
RetrieveOneRow(ok, matching) ==
  IF ~ok THEN [fail |-> TRUE, rows |-> <<>>]
  ELSE [fail |-> FALSE, rows |-> IF matching = <<>> THEN <<>> ELSE <<Head(matching)>>]

RetrieveAllRows(ok, matching) ==
  IF ~ok THEN [fail |-> TRUE, rows |-> <<>>]
  ELSE [fail |-> FALSE, rows |-> matching]

\* perform_action: the affected-row count, or the absent value
PerformAction(ok) == IF ok THEN "rowcount" ELSE "None"

\* How a storage call ends: done, the absent value returned, or an exception.
StorageOutcomes == {"ok", "none", "raise"}

\* upload_file(local, bucket, key) -> key
UploadFile(outcome, key) == IF outcome = "ok" THEN key ELSE NoKey

\* The bucket after upload_file: the object is written (over any old one)
\* only when the call succeeded.
BucketAfterPut(b, outcome, key, content) ==
  IF outcome = "ok"
  THEN [k \in (DOMAIN b) \cup {key} |-> IF k = key THEN content ELSE b[k]]
  ELSE b

\* download_file(bucket, key) can succeed only for an object that is there.
DownloadOutcomes(b, key) ==
  IF key \in DOMAIN b THEN StorageOutcomes ELSE {"none", "raise"}

----------------------------------------------------------------------------
\* The SQL statements

Ids(rows) == {r[1] : r \in rows}

MaxId(S) == CHOOSE m \in S : \A n \in S : n <= m
MinId(S) == CHOOSE m \in S : \A n \in S : m <= n

RECURSIVE DescById(_)
DescById(rows) ==
  IF rows = {} THEN <<>>
  ELSE LET top == CHOOSE r \in rows : r[1] = MaxId(Ids(rows))
       IN <<top>> \o DescById(rows \ {top})

RECURSIVE AscById(_)
AscById(rows) ==
  IF rows = {} THEN <<>>
  ELSE LET low == CHOOSE r \in rows : r[1] = MinId(Ids(rows))
       IN <<low>> \o AscById(rows \ {low})

SelectUsersAsc(table) == AscById(table)

\* select * from users order by userid desc
SelectUsersDesc(table) == DescById(table)

\* select * from assets order by assetid desc
SelectAssetsDesc(table) == DescById(table)

\* select (select count(*) from users), (select count(*) from assets)
SelectCounts(u, a) == << <<Cardinality(u), Cardinality(a)>> >>

\* select bucketkey, assetname from assets where assetid = %s
SelectAssetById(table, id) ==
  LET hit == DescById({r \in table : r[1] = id})
  IN IF hit = <<>> THEN <<>> ELSE << <<hit[1][4], hit[1][3]>> >>

SelectAnyUser(table, id) == AscById(table)

\* select * from users where userid = %s
SelectUserById(table, id) == AscById({r \in table : r[1] = id})

\* INSERT INTO assets(userid, assetname, bucketkey) values(%s, %s, %s)
InsertAsset(table, newid, id, s, key) == table \cup {<<newid, id, s, key>>}

\* INSERT INTO users(email, lastname, firstname, bucketfolder) values(...)
InsertUser(table, newid, email, ln, fn, folder) ==
  table \cup {<<newid, email, ln, fn, folder>>}

\* select LAST_INSERT_ID(): after a statement that failed the value is
\* undefined; it may be the old one, 0, or the id the statement would have taken.
LastIdAfterFailure(old, next) == {old, 0, next}

----------------------------------------------------------------------------
\* Pieces of the handlers

PathAlwaysExists(files, s) == TRUE

\* os.path.exists(s)
PathExists(files, s) == files[s] # NoFile

\* upload: row1 is None or row1 == ()
NoSuchUser(row1) == row1.fail \/ row1.rows = <<>>

UploadKeyByName(folder, token, s) == <<folder, "/", s>>

\* upload: row1[4] + '/' + str(uuid.uuid4()) + '.jpg'
UploadKey(folder, token, s) == <<folder, "/", token, ".jpg">>

DownloadMessageSwapped(row) ==
  IF row.rows = <<>> THEN MsgDbFailed
  ELSE IF row.fail THEN MsgNoSuchAsset
  ELSE MsgDownloaded

\* download: if row is None ... elif row == () ... else ...
DownloadMessage(row) ==
  IF row.fail THEN MsgDbFailed
  ELSE IF row.rows = <<>> THEN MsgNoSuchAsset
  ELSE MsgDownloaded

RenameKept(files, name, content) == files

\* download: os.rename(filename, row[1]) of the temporary file just fetched
Rename(files, name, content) == [files EXCEPT ![name] = content]

----------------------------------------------------------------------------
\* The state when the main loop is entered: the configuration was read, the
\* connection is open, the tables and the bucket are empty.

Init ==
  /\ pc = "awaiting"
  /\ cmd = NoInput
  /\ users = {}
  /\ assets = {}
  /\ nextUserId = 1
  /\ nextAssetId = 1
  /\ lastInsertId = 0
  /\ nextToken = 1
  /\ bucket = <<>>
  /\ localFiles = [p \in Paths |-> IF p = "nope.jpg" THEN NoFile ELSE "jpeg-1"]
  /\ run = Idle
  /\ uploaded = {}
  /\ lastUser = 0

db == <<users, assets, nextUserId, nextAssetId, lastInsertId>>

----------------------------------------------------------------------------
\* The commands

\* cmd = 0: the loop ends, "** done **"
Quit ==
  /\ pc = "awaiting"
  /\ \E c \in Commands :
       /\ HandlerOf(c) = "end"
       /\ cmd' = c
  /\ pc' = "terminated"
  /\ run' = [Idle EXCEPT !.handler = "end"]
  /\ UNCHANGED <<db, nextToken, bucket, localFiles, uploaded, lastUser>>

\* prompt: int(input()) raises on a line that is no integer (or at end of input)
BadCommand ==
  /\ pc = "awaiting"
  /\ pc' = "crashed"
  /\ run' = Idle
  /\ UNCHANGED <<cmd, db, nextToken, bucket, localFiles, uploaded, lastUser>>

\* the else branch of the loop
Unknown ==
  /\ pc = "awaiting"
  /\ \E c \in Commands :
       /\ HandlerOf(c) = "unknown"
       /\ cmd' = c
  /\ pc' = "awaiting"
  /\ run' = [Idle EXCEPT !.handler = "unknown", !.out = <<MsgUnknown>>]
  /\ UNCHANGED <<db, nextToken, bucket, localFiles, uploaded, lastUser>>

\* stats(bucketname, bucket, endpoint, dbConn)
Stats ==
  /\ pc = "awaiting"
  /\ \E c \in Commands :
       /\ HandlerOf(c) = "stats"
       /\ cmd' = c
  /\ \E listOk \in BOOLEAN, queryOk \in BOOLEAN :
       LET row == RetrieveOneRow(queryOk, SelectCounts(users, assets))
           n == Cardinality(DOMAIN bucket)
       IN IF ~listOk
             THEN \* bucket.objects.all() raised
                  /\ pc' = "crashed"
                  /\ run' = [Idle EXCEPT !.handler = "stats", !.s3 = 1]
             ELSE /\ pc' = "awaiting"
                  /\ run' = [Idle EXCEPT
                       !.handler = "stats", !.s3 = 1, !.db = 1,
                       !.dbFailed = row.fail,
                       !.out = IF row.fail THEN <<MsgDbFailed>>
                               ELSE IF row.rows = <<>> THEN <<MsgUnexpected>>
                               ELSE <<MsgStats>>,
                       !.rows = IF row.fail \/ row.rows = <<>> THEN <<n>>
                                ELSE <<n, row.rows[1][1], row.rows[1][2]>>]
  /\ UNCHANGED <<db, nextToken, bucket, localFiles, uploaded, lastUser>>

\* users(dbConn)
Users ==
  /\ pc = "awaiting"
  /\ \E c \in Commands :
       /\ HandlerOf(c) = "users"
       /\ cmd' = c
  /\ \E queryOk \in BOOLEAN :
       LET rows == RetrieveAllRows(queryOk, SelectUsersDesc(users))
       IN run' = [Idle EXCEPT
               !.handler = "users", !.db = 1, !.dbFailed = rows.fail,
               !.out = IF rows.fail THEN <<MsgDbFailed>>
                       ELSE IF rows.rows = <<>> THEN <<MsgUnexpected>>
                       ELSE [i \in 1 .. Len(rows.rows) |-> MsgUser],
               !.rows = rows.rows]
  /\ pc' = "awaiting"
  /\ UNCHANGED <<db, nextToken, bucket, localFiles, uploaded, lastUser>>

\* assets(dbConn)
Assets ==
  /\ pc = "awaiting"
  /\ \E c \in Commands :
       /\ HandlerOf(c) = "assets"
       /\ cmd' = c
  /\ \E queryOk \in BOOLEAN :
       LET rows == RetrieveAllRows(queryOk, SelectAssetsDesc(assets))
       IN run' = [Idle EXCEPT
               !.handler = "assets", !.db = 1, !.dbFailed = rows.fail,
               !.out = IF rows.fail THEN <<MsgDbFailed>>
                       ELSE IF rows.rows = <<>> THEN <<MsgUnexpected>>
                       ELSE [i \in 1 .. Len(rows.rows) |-> MsgAsset],
               !.rows = rows.rows]
  /\ pc' = "awaiting"
  /\ UNCHANGED <<db, nextToken, bucket, localFiles, uploaded, lastUser>>

\* download(dbConn, bucket, display)
Download ==
  /\ pc = "awaiting"
  /\ \E c \in Commands :
       /\ HandlerOf(c) = "download"
       /\ cmd' = c
       /\ \E id \in 0 .. nextAssetId, lookupOk \in BOOLEAN :
            LET row == RetrieveOneRow(lookupOk, SelectAssetById(assets, id))
                msg == DownloadMessage(row)
                seen == [Idle EXCEPT !.handler = "download", !.id = id, !.db = 1,
                                     !.dbFailed = row.fail]
            IN IF msg # MsgDownloaded
               THEN /\ pc' = "awaiting"
                    /\ run' = [seen EXCEPT !.out = <<msg>>]
                    /\ UNCHANGED localFiles
               ELSE \E get \in DownloadOutcomes(bucket, row.rows[1][1]) :
                      IF get # "ok"
                      THEN \* os.rename(None, ...) raises, or download_file did
                           /\ pc' = "crashed"
                           /\ run' = [seen EXCEPT !.s3 = 1]
                           /\ UNCHANGED localFiles
                      ELSE /\ localFiles' =
                                Rename(localFiles, row.rows[1][2], bucket[row.rows[1][1]])
                           /\ run' = [seen EXCEPT !.s3 = 1, !.out = <<msg>>]
                           \* img.imread / plt.show may raise
                           /\ \E shown \in IF DisplayOf(c) THEN BOOLEAN ELSE {TRUE} :
                                pc' = IF shown THEN "awaiting" ELSE "crashed"
  /\ UNCHANGED <<db, nextToken, bucket, uploaded, lastUser>>

\* upload(dbConn, bucket)
Upload ==
  /\ pc = "awaiting"
  /\ \E c \in Commands :
       /\ HandlerOf(c) = "upload"
       /\ cmd' = c
  /\ \E s \in Paths :
       LET seen == [Idle EXCEPT !.handler = "upload", !.path = s]
           content == localFiles[s]
       IN IF ~PathExists(localFiles, s)
          THEN \* os.abort()
               /\ pc' = "aborted"
               /\ run' = [seen EXCEPT !.out = <<MsgNoLocalFile>>]
               /\ UNCHANGED <<assets, nextAssetId, lastInsertId, nextToken,
                              bucket, uploaded>>
          ELSE \E id \in 0 .. nextUserId, lookupOk \in BOOLEAN :
            LET row1 == RetrieveOneRow(lookupOk, SelectUserById(users, id))
            IN IF NoSuchUser(row1)
               THEN \* os.abort()
                    /\ pc' = "aborted"
                    /\ run' = [seen EXCEPT !.id = id, !.db = 1, !.dbFailed = row1.fail,
                                           !.out = <<MsgNoSuchUser>>]
                    /\ UNCHANGED <<assets, nextAssetId, lastInsertId, nextToken,
                                   bucket, uploaded>>
               ELSE \E put \in StorageOutcomes :
                 LET filename == UploadKey(row1.rows[1][5], nextToken, s)
                     key == UploadFile(put, filename)
                 IN /\ nextToken <= MaxTokens
                    /\ nextToken' = nextToken + 1
                    /\ bucket' = BucketAfterPut(bucket, put, filename, content)
                    /\ IF put = "raise"
                       THEN /\ pc' = "crashed"
                            /\ run' = [seen EXCEPT !.id = id, !.db = 1, !.s3 = 1]
                            /\ UNCHANGED <<assets, nextAssetId, lastInsertId, uploaded>>
                       ELSE \E insertOk \in BOOLEAN, requeryOk \in BOOLEAN :
                         LET row2 == PerformAction(insertOk)
                         IN /\ assets' = IF insertOk
                                         THEN InsertAsset(assets, nextAssetId, id, s, key)
                                         ELSE assets
                            /\ nextAssetId' = IF insertOk THEN nextAssetId + 1
                                              ELSE nextAssetId
                            /\ lastInsertId' \in
                                 IF insertOk THEN {nextAssetId}
                                 ELSE LastIdAfterFailure(lastInsertId, nextAssetId)
                            \* row3[0] raises when the second query failed
                            /\ pc' = IF requeryOk THEN "awaiting" ELSE "crashed"
                            /\ run' = [seen EXCEPT
                                 !.id = id, !.db = 3, !.s3 = 1, !.action = row2,
                                 !.dbFailed = ~insertOk \/ ~requeryOk,
                                 !.out = IF requeryOk THEN <<MsgUploaded, MsgRecorded>>
                                         ELSE <<MsgUploaded>>,
                                 !.rid = IF requeryOk THEN lastInsertId' ELSE NoInput]
                            /\ uploaded' = IF put = "ok" /\ insertOk /\ requeryOk
                                           THEN uploaded \cup {<<lastInsertId', content>>}
                                           ELSE uploaded
  /\ UNCHANGED <<users, nextUserId, localFiles, lastUser>>

\* adduser(dbConn)
AddUser ==
  /\ pc = "awaiting"
  /\ nextToken <= MaxTokens
  /\ \E c \in Commands :
       /\ HandlerOf(c) = "adduser"
       /\ cmd' = c
  /\ \E email \in Emails, ln \in LastNames, fn \in FirstNames,
        insertOk \in BOOLEAN, requeryOk \in BOOLEAN :
       LET folder == nextToken
           row1 == PerformAction(insertOk)
       IN /\ nextToken' = nextToken + 1
          /\ users' = IF insertOk
                      THEN InsertUser(users, nextUserId, email, ln, fn, folder)
                      ELSE users
          /\ nextUserId' = IF insertOk THEN nextUserId + 1 ELSE nextUserId
          /\ lastInsertId' \in
               IF insertOk THEN {nextUserId}
               ELSE LastIdAfterFailure(lastInsertId, nextUserId)
          /\ lastUser' = IF insertOk THEN nextUserId ELSE lastUser
          \* row2[0] raises when the second query failed
          /\ pc' = IF requeryOk THEN "awaiting" ELSE "crashed"
          /\ run' = [Idle EXCEPT
               !.handler = "adduser", !.db = 2, !.action = row1,
               !.dbFailed = ~insertOk \/ ~requeryOk,
               !.out = IF requeryOk THEN <<MsgRecorded>> ELSE <<>>,
               !.rid = IF requeryOk THEN lastInsertId' ELSE NoInput]
  /\ UNCHANGED <<assets, nextAssetId, bucket, localFiles, uploaded>>

\* Between two commands the user may replace the content of a local file.
LocalFileChange ==
  /\ pc = "awaiting"
  /\ \E p \in Paths, content \in Contents :
       /\ localFiles[p] # NoFile
       /\ localFiles[p] # content
       /\ localFiles' = [localFiles EXCEPT ![p] = content]
  /\ run' = Idle
  /\ UNCHANGED <<pc, cmd, db, nextToken, bucket, uploaded, lastUser>>

Next ==
  \/ Quit
  \/ BadCommand
  \/ Unknown
  \/ Stats
  \/ Users
  \/ Assets
  \/ Download
  \/ Upload
  \/ AddUser
  \/ LocalFileChange

Spec == Init /\ [][Next]_vars

----------------------------------------------------------------------------
\* Properties

\* A step of a handler is a step into a state whose run names that handler.
Ran(h) == run'.handler = h

Printed(r, msg) == \E i \in 1 .. Len(r.out) : r.out[i] = msg

HasRow(table, id) == \E r \in table : r[1] = id

RowOf(table, id) == CHOOSE r \in table : r[1] = id

StoreUnchanged == users' = users /\ assets' = assets /\ bucket' = bucket

\* C1 (as claimed): a download of an asset id that has no row reports
\* "No such asset", makes no storage call, leaves the assets table and the
\* bucket as they were and returns to the prompt.
C1_NoSuchAssetAlways ==
  [][(Ran("download") /\ ~HasRow(assets, run'.id))
       => /\ run'.out = <<MsgNoSuchAsset>>
          /\ run'.s3 = 0
          /\ assets' = assets /\ bucket' = bucket
          /\ pc' = "awaiting"]_vars

\* C1 (amended): a download of an asset id that has no row makes no storage
\* call, leaves the assets table and the bucket as they were and returns to
\* the prompt; it reports "No such asset" when the lookup ran, and
\* "Database operation failed" when the lookup itself failed.
C1_NoSuchAsset ==
  [][(Ran("download") /\ ~HasRow(assets, run'.id))
       => /\ run'.out = <<IF run'.dbFailed THEN MsgDbFailed ELSE MsgNoSuchAsset>>
          /\ run'.s3 = 0
          /\ assets' = assets /\ bucket' = bucket
          /\ pc' = "awaiting"]_vars

C1_Witness ==
  /\ run.handler = "download"
  /\ run.out = <<MsgNoSuchAsset>>
  /\ assets # {}
  /\ ~HasRow(assets, run.id)
  /\ pc = "awaiting"

\* C2: an upload of a local path that names no file reports it and ends the
\* process with no database call and no storage call; the process never
\* comes back to the prompt.
C2_UploadMissingFile ==
  [][/\ (Ran("upload") /\ localFiles[run'.path] = NoFile)
          => /\ run'.out = <<MsgNoLocalFile>>
             /\ run'.db = 0
             /\ run'.s3 = 0
             /\ StoreUnchanged
             /\ pc' = "aborted"
     /\ pc = "aborted" => pc' = "aborted"]_vars

C2_Witness ==
  /\ pc = "aborted"
  /\ run.handler = "upload"
  /\ run.out = <<MsgNoLocalFile>>
  /\ localFiles[run.path] = NoFile

\* C3: every row of assets is owned by a user id that has a row in users.
C3_OwnerExists == \A a \in assets : HasRow(users, a[2])

C3_Witness ==
  /\ run.handler = "upload"
  /\ Printed(run, MsgRecorded)
  /\ \E a \in assets : a[1] = run.rid /\ HasRow(users, a[2])
  /\ Cardinality(users) >= 2

C5_RoundTrip ==
  [][(Ran("download") /\ Printed(run', MsgDownloaded))
       => \A u \in uploaded :
            u[1] = run'.id => localFiles'[RowOf(assets, u[1])[3]] = u[2]]_vars

\* The download of an upload's asset, after a later upload, onto a path that
\* held something else, which is still what the other path holds.
C5_Witness ==
  /\ run.handler = "download"
  /\ Printed(run, MsgDownloaded)
  /\ \E u \in uploaded :
       /\ u[1] = run.id
       /\ localFiles[RowOf(assets, u[1])[3]] = u[2]
       /\ \E v \in uploaded : v[1] > u[1] /\ v[2] # u[2]
       /\ \E p \in Paths : localFiles[p] \notin {u[2], NoFile}

\* C6 (as claimed): whenever a call to the data-access wrapper returns the
\* absent value, the handler prints the failure and the loop goes on.
C6_DbFailureIsPrintedAndLoopGoesOn ==
  [][(run'.handler # "idle" /\ run'.dbFailed)
       => /\ Printed(run', MsgDbFailed)
          /\ pc' = "awaiting"]_vars

\* C7: a command number outside the menu prints a message and goes back to
\* the prompt: no handler runs, nothing is called, nothing changes.  The
\* loop ends only by command 0 read at the prompt.
C7_UnknownCommand ==
  [][/\ (run'.handler # "idle" /\ cmd' \notin 0 .. LastCommand)
          => /\ Ran("unknown")
             /\ run'.out = <<MsgUnknown>>
             /\ run'.db = 0
             /\ run'.s3 = 0
             /\ StoreUnchanged
             /\ pc' = "awaiting"
     /\ (pc' = "terminated" /\ pc # "terminated")
          => pc = "awaiting" /\ cmd' = 0]_vars

C7_Witness ==
  /\ run.handler = "unknown"
  /\ cmd \notin 0 .. LastCommand
  /\ pc = "awaiting"
  /\ users # {}
  /\ assets # {}

\* C8: an add-user whose insert succeeded adds exactly one row, with an id
\* and a folder token no earlier row has; a users listing shows every row,
\* in strictly descending order of id, the row of the last add-user first.
C8_AddUserThenListing ==
  [][/\ (Ran("adduser") /\ run'.action = "rowcount")
          => \E r \in users' :
               /\ r \notin users
               /\ users' = users \cup {r}
               /\ \A u \in users : u[1] # r[1] /\ u[5] # r[5]
               /\ lastUser' = r[1]
     /\ (Ran("users") /\ run'.rows # <<>>)
          => /\ {run'.rows[i] : i \in 1 .. Len(run'.rows)} = users
             /\ \A i \in 1 .. Len(run'.rows) - 1 :
                  run'.rows[i][1] > run'.rows[i + 1][1]
             /\ run'.rows[1][1] = lastUser]_vars

C8_Witness ==
  /\ run.handler = "users"
  /\ Len(run.rows) >= 2
  /\ run.rows[1][1] = lastUser
  /\ nextUserId = lastUser + 1

\* C9 (as claimed): the bucket key of every row of assets names an object
\* of the bucket.
C9_KeyInBucket == \A a \in assets : a[4] \in DOMAIN bucket

\* C10 (as claimed): upload and add-user print "Recorded in RDS under asset
\* id N" only when their insert succeeded, and N is the id of the row this
\* run inserted.
C10_RecordedIdIsInserted ==
  [][((Ran("upload") \/ Ran("adduser")) /\ Printed(run', MsgRecorded))
       => /\ run'.action = "rowcount"
          /\ \/ \E r \in assets' \ assets : r[1] = run'.rid
             \/ \E r \in users' \ users : r[1] = run'.rid]_vars

====
